---- MODULE Spec2Model ----
(***************************************************************************)
(* Model of voting_2024_change_analysis/scoring.py: the ScoreFloatPair     *)
(* value type and the three scoring strategies PublicWhipScore,            *)
(* SimplifiedGradiatedScore and SimplifiedScore.                           *)
(*                                                                         *)
(* Python floats are modelled as exact rationals [n, d] in lowest terms.   *)
(* The inputs are small whole counts, for which every product and sum of   *)
(* the source is exact in binary64 and every comparison of a quotient      *)
(* with a decimal literal agrees with the comparison of the rationals      *)
(* (division is correctly rounded and rounding is monotone).               *)
(***************************************************************************)
EXTENDS Integers, Sequences, FiniteSets, TLC

\* ---- bounds of the explored inputs ----
MaxSameWeak == 3
MaxSameStrong == 8
MaxAbsentWeak == 3
MaxAbsentStrong == 2
MaxOther == 2

\* ---- exact arithmetic standing for float arithmetic ----
RECURSIVE GCD(_, _)
GCD(a, b) == IF b = 0 THEN a ELSE GCD(b, a % b)

Abs(x) == IF x < 0 THEN -x ELSE x

\* the rational n/d in lowest terms with a positive denominator (d # 0)
Frac(n, d) ==
    LET g == GCD(Abs(n), Abs(d))
        s == IF d < 0 THEN -1 ELSE 1
    IN [n |-> (s * n) \div g, d |-> (s * d) \div g]

Num(k) == [n |-> k, d |-> 1]

Plus(x, y) == Frac(x.n * y.d + y.n * x.d, x.d * y.d)
Times(x, y) == Frac(x.n * y.n, x.d * y.d)
Over(x, y) == Frac(x.n * y.d, x.d * y.n)
Leq(x, y) == x.n * y.d <= y.n * x.d
Geq(x, y) == Leq(y, x)
Lt(x, y) == x.n * y.d < y.n * x.d
Gt(x, y) == Lt(y, x)
IsZero(x) == x.n = 0

\* ---- class ScoreFloatPair ----
ScoreFloatPair(weak, strong) == [weak |-> weak, strong |-> strong]

add(self, other) ==
    ScoreFloatPair(Plus(self.weak, other.weak), Plus(self.strong, other.strong))

divide(self, other) ==
    ScoreFloatPair(Over(self.weak, other), Over(self.strong, other))

Pair(w, s) == ScoreFloatPair(Num(w), Num(s))

\* ---- class PublicWhipScore ----
PW_vote_weight == ScoreFloatPair(Num(10), Num(50))

PW_absence_total_weight_halved == ScoreFloatPair(Frac(1, 2), Num(50))
PW_absence_total_weight == ScoreFloatPair(Num(2), Num(50))

PW_absence_weight_doubled == ScoreFloatPair(Num(2), Num(25))
PW_absence_weight == ScoreFloatPair(Num(1), Num(25))

PW_points(vd, vaa) ==
    Plus(Plus(Plus(Times(PW_vote_weight.weak, vd.weak),
                   Times(PW_vote_weight.strong, vd.strong)),
              Times(PW_absence_weight.weak, vaa.weak)),
         Times(PW_absence_weight.strong, vaa.strong))

PW_avaliable_points(vs, vd, vaa) ==
    Plus(Plus(Plus(Plus(Plus(Times(PW_vote_weight.weak, vs.weak),
                             Times(PW_vote_weight.weak, vd.weak)),
                        Times(PW_vote_weight.strong, vs.strong)),
                   Times(PW_vote_weight.strong, vd.strong)),
              Times(PW_absence_total_weight.strong, vaa.strong)),
         Times(PW_absence_total_weight.weak, vaa.weak))

PW_all_absences_strong_only(va) == va.strong
PW_all_absences(va) == Plus(va.weak, va.strong)

PW_all_others(vs, vd, vab) ==
    Plus(Plus(Plus(Plus(Plus(vs.weak, vs.strong), vd.weak), vd.strong),
              vab.weak), vab.strong)

PublicWhipScore_zero_for_empty(vs, vd, va, vab, ags, agd) ==
    LET votes_absent_or_abstain == add(va, vab)
        points == PW_points(vd, votes_absent_or_abstain)
        avaliable_points == PW_avaliable_points(vs, vd, votes_absent_or_abstain)
    IN IF IsZero(PW_all_others(vs, vd, vab)) /\ Gt(PW_all_absences(va), Num(0))
       THEN Num(-1)
       ELSE IF IsZero(avaliable_points) THEN Num(0)
       ELSE Over(points, avaliable_points)

PublicWhipScore(vs, vd, va, vab, ags, agd) ==
    LET votes_absent_or_abstain == add(va, vab)
        points == PW_points(vd, votes_absent_or_abstain)
        avaliable_points == PW_avaliable_points(vs, vd, votes_absent_or_abstain)
    IN IF IsZero(PW_all_others(vs, vd, vab)) /\ Gt(PW_all_absences(va), Num(0))
       THEN Num(-1)
       ELSE IF IsZero(avaliable_points) THEN Num(-1)
       ELSE Over(points, avaliable_points)

\* ---- class SimplifiedGradiatedScore ----
SG_vote_weight == ScoreFloatPair(Num(10), Num(50))
SG_agreement_weight == SG_vote_weight
SG_abstain_total_weight == SG_vote_weight
SG_abstain_weight == divide(SG_vote_weight, Num(2))
SG_absence_weight == ScoreFloatPair(Num(0), Num(0))
SG_absence_total_weight == ScoreFloatPair(Num(0), Num(0))

SG_points(vd, va, vab, agd) ==
    Plus(Plus(Plus(Plus(Plus(Plus(Plus(
        Times(SG_vote_weight.weak, vd.weak),
        Times(SG_vote_weight.strong, vd.strong)),
        Times(SG_absence_weight.weak, va.weak)),
        Times(SG_absence_weight.strong, va.strong)),
        Times(SG_abstain_weight.weak, vab.weak)),
        Times(SG_abstain_weight.strong, vab.strong)),
        Times(SG_agreement_weight.weak, agd.weak)),
        Times(SG_agreement_weight.strong, agd.strong))

SG_avaliable_points(vs, vd, va, vab, ags, agd) ==
    Plus(Plus(Plus(Plus(Plus(Plus(Plus(
        Times(SG_vote_weight.weak, Plus(vs.weak, vd.weak)),
        Times(SG_vote_weight.strong, Plus(vs.strong, vd.strong))),
        Times(SG_agreement_weight.weak, Plus(ags.weak, agd.weak))),
        Times(SG_agreement_weight.strong, Plus(ags.strong, agd.strong))),
        Times(SG_absence_total_weight.weak, va.weak)),
        Times(SG_absence_total_weight.strong, va.strong)),
        Times(SG_abstain_total_weight.weak, vab.weak)),
        Times(SG_abstain_total_weight.strong, vab.strong))

SG_total(vs, vd, va, vab) == add(add(add(vs, vd), va), vab).strong

\* first check: more than one absent strong vote
SG_cap_more_than_two(score, va) ==
    IF Gt(va.strong, Num(2))
    THEN IF Leq(score, Frac(5, 100)) THEN Frac(6, 100)
         ELSE IF Geq(score, Frac(95, 100)) THEN Frac(94, 100)
         ELSE score
    ELSE score

SG_cap(score, va) ==
    IF Gt(va.strong, Num(1))
    THEN IF Leq(score, Frac(5, 100)) THEN Frac(6, 100)
         ELSE IF Geq(score, Frac(95, 100)) THEN Frac(94, 100)
         ELSE score
    ELSE score

\* second check: at least a third of the strong votes absent
SG_cap_third_strict(score, va, total) ==
    IF Gt(va.strong, Over(total, Num(3)))
    THEN IF Leq(score, Frac(15, 100)) THEN Frac(16, 100)
         ELSE IF Geq(score, Frac(85, 100)) THEN Frac(84, 100)
         ELSE score
    ELSE score

SG_cap_third(score, va, total) ==
    IF Geq(va.strong, Over(total, Num(3)))
    THEN IF Leq(score, Frac(15, 100)) THEN Frac(16, 100)
         ELSE IF Geq(score, Frac(85, 100)) THEN Frac(84, 100)
         ELSE score
    ELSE score

SimplifiedGradiatedScore(vs, vd, va, vab, ags, agd) ==
    LET points == SG_points(vd, va, vab, agd)
        avaliable_points == SG_avaliable_points(vs, vd, va, vab, ags, agd)
    IN IF IsZero(avaliable_points) THEN Num(-1)
       ELSE SG_cap_third(SG_cap(Over(points, avaliable_points), va),
                         va, SG_total(vs, vd, va, vab))

\* ---- class SimplifiedScore ----
S_vote_weight_weak_counted == ScoreFloatPair(Num(10), Num(10))
S_vote_weight == ScoreFloatPair(Num(0), Num(10))
S_agreement_weight == S_vote_weight
S_abstain_total_weight == S_vote_weight
S_abstain_weight == divide(S_vote_weight, Num(2))
S_absence_weight == ScoreFloatPair(Num(0), Num(0))
S_absence_total_weight == ScoreFloatPair(Num(0), Num(0))

S_points(vd, va, vab, agd) ==
    Plus(Plus(Plus(Plus(Plus(Plus(Plus(
        Times(S_vote_weight.weak, vd.weak),
        Times(S_vote_weight.strong, vd.strong)),
        Times(S_absence_weight.weak, va.weak)),
        Times(S_absence_weight.strong, va.strong)),
        Times(S_abstain_weight.weak, vab.weak)),
        Times(S_abstain_weight.strong, vab.strong)),
        Times(S_agreement_weight.weak, agd.weak)),
        Times(S_agreement_weight.strong, agd.strong))

S_avaliable_points(vs, vd, va, vab, ags, agd) ==
    Plus(Plus(Plus(Plus(Plus(Plus(Plus(
        Times(S_vote_weight.weak, Plus(vs.weak, vd.weak)),
        Times(S_vote_weight.strong, Plus(vs.strong, vd.strong))),
        Times(S_agreement_weight.weak, Plus(ags.weak, agd.weak))),
        Times(S_agreement_weight.strong, Plus(ags.strong, agd.strong))),
        Times(S_absence_total_weight.weak, va.weak)),
        Times(S_absence_total_weight.strong, va.strong)),
        Times(S_abstain_total_weight.weak, vab.weak)),
        Times(S_abstain_total_weight.strong, vab.strong))

S_total(vs, vd, va, vab) == add(add(add(vs, vd), va), vab).strong

S_cap(score, va) ==
    IF Gt(va.strong, Num(1))
    THEN IF Leq(score, Frac(5, 100)) THEN Frac(6, 100)
         ELSE IF Geq(score, Frac(95, 100)) THEN Frac(94, 100)
         ELSE score
    ELSE score

S_cap_third(score, va, total) ==
    IF Geq(va.strong, Over(total, Num(3)))
    THEN IF Leq(score, Frac(15, 100)) THEN Frac(16, 100)
         ELSE IF Geq(score, Frac(85, 100)) THEN Frac(84, 100)
         ELSE score
    ELSE score

SimplifiedScore(vs, vd, va, vab, ags, agd) ==
    LET points == S_points(vd, va, vab, agd)
        avaliable_points == S_avaliable_points(vs, vd, va, vab, ags, agd)
    IN IF IsZero(avaliable_points) THEN Num(-1)
       ELSE S_cap_third(S_cap(Over(points, avaliable_points), va),
                        va, S_total(vs, vd, va, vab))

\* ---- one comparison: the caller builds six pairs and calls one strategy ----
VARIABLES votes_same, votes_different, votes_absent, votes_abstain,
          agreements_same, agreements_different, called, result

inputs == <<votes_same, votes_different, votes_absent, votes_abstain,
            agreements_same, agreements_different>>
vars == <<votes_same, votes_different, votes_absent, votes_abstain,
          agreements_same, agreements_different, called, result>>

Pairs(maxWeak, maxStrong) ==
    {Pair(w, s) : w \in 0..maxWeak, s \in 0..maxStrong}

RECURSIVE SumTo(_, _)
SumTo(f, k) == IF k = 0 THEN 0 ELSE f[k] + SumTo(f, k - 1)

\* the weak and strong counts of votes_different, votes_abstain,
\* agreements_same and agreements_different: at most MaxOther items in all
OtherCounts == {f \in [1..8 -> 0..MaxOther] : SumTo(f, 8) <= MaxOther}

Init ==
    \E f \in OtherCounts :
       /\ votes_same \in Pairs(MaxSameWeak, MaxSameStrong)
       /\ votes_different = Pair(f[1], f[2])
       /\ votes_absent \in Pairs(MaxAbsentWeak, MaxAbsentStrong)
       /\ votes_abstain = Pair(f[3], f[4])
       /\ agreements_same = Pair(f[5], f[6])
       /\ agreements_different = Pair(f[7], f[8])
       /\ called = "none"
       /\ result = Num(0)

CallPublicWhipScore ==
    /\ called = "none"
    /\ result' = PublicWhipScore(votes_same, votes_different, votes_absent,
                                 votes_abstain, agreements_same,
                                 agreements_different)
    /\ called' = "PublicWhipScore"
    /\ UNCHANGED inputs

CallSimplifiedGradiatedScore ==
    /\ called = "none"
    /\ result' = SimplifiedGradiatedScore(votes_same, votes_different,
                                          votes_absent, votes_abstain,
                                          agreements_same, agreements_different)
    /\ called' = "SimplifiedGradiatedScore"
    /\ UNCHANGED inputs

CallSimplifiedScore ==
    /\ called = "none"
    /\ result' = SimplifiedScore(votes_same, votes_different, votes_absent,
                                 votes_abstain, agreements_same,
                                 agreements_different)
    /\ called' = "SimplifiedScore"
    /\ UNCHANGED inputs

Next ==
    \/ CallPublicWhipScore
    \/ CallSimplifiedGradiatedScore
    \/ CallSimplifiedScore

Spec == Init /\ [][Next]_vars

\* ---- properties ----
Zero == Pair(0, 0)
Simplified == {"SimplifiedGradiatedScore", "SimplifiedScore"}
NoComparison == Num(-1)

\* C1: every strategy returns either -1 or a value between 0 and 1 inclusive
C1_ScoreRange ==
    called # "none" =>
        \/ result = NoComparison
        \/ Leq(Num(0), result) /\ Leq(result, Num(1))

C1_Witness ==
    /\ called = "PublicWhipScore"
    /\ votes_different = Pair(1, 1)
    /\ votes_absent = Zero /\ votes_abstain = Zero /\ votes_same = Zero
    /\ result = Num(1)

\* C2: PublicWhipScore, when it does not return -1, returns points / available
\* with the documented weights; two weak votes the same and three weak
\* absences give exactly 3/26
C2_PublicWhipFormula ==
    LET sw == votes_same.weak.n
        ss == votes_same.strong.n
        dw == votes_different.weak.n
        ds == votes_different.strong.n
        aw == votes_absent.weak.n + votes_abstain.weak.n
        as == votes_absent.strong.n + votes_abstain.strong.n
        p == 10 * dw + 50 * ds + 1 * aw + 25 * as
        a == 10 * sw + 10 * dw + 50 * ss + 50 * ds + 2 * aw + 50 * as
    IN called = "PublicWhipScore" =>
        /\ result # NoComparison => a # 0 /\ result.n * a = p * result.d
        /\ (/\ votes_same = Pair(2, 0) /\ votes_absent = Pair(3, 0)
            /\ votes_different = Zero /\ votes_abstain = Zero
            /\ agreements_same = Zero /\ agreements_different = Zero)
           => result = Frac(3, 26)

C2_Witness ==
    /\ called = "PublicWhipScore"
    /\ votes_same = Pair(2, 0) /\ votes_absent = Pair(3, 0)
    /\ votes_different = Zero /\ votes_abstain = Zero
    /\ agreements_same = Zero /\ agreements_different = Zero
    /\ result = Frac(3, 26)

C4_AllZero ==
    (/\ called # "none"
     /\ votes_same = Zero /\ votes_different = Zero /\ votes_absent = Zero
     /\ votes_abstain = Zero /\ agreements_same = Zero
     /\ agreements_different = Zero)
    => result = NoComparison

C4_Witness ==
    /\ called = "PublicWhipScore"
    /\ votes_same = Zero /\ votes_different = Zero /\ votes_absent = Zero
    /\ votes_abstain = Zero /\ agreements_same = Zero
    /\ agreements_different = Zero
    /\ result = NoComparison

\* C5: the PublicWhipScore result depends on votes_absent and votes_abstain
\* only through their sum: every other split of the same sum scores the same
C5_AbstainAsAbsent ==
    called = "PublicWhipScore" =>
        LET sum == add(votes_absent, votes_abstain)
        IN \A w \in 0..sum.weak.n, s \in 0..sum.strong.n :
              PublicWhipScore(votes_same, votes_different, Pair(w, s),
                              Pair(sum.weak.n - w, sum.strong.n - s),
                              agreements_same, agreements_different) = result

StrongTotal ==
    votes_same.strong.n + votes_different.strong.n
    + votes_absent.strong.n + votes_abstain.strong.n

\* the unadjusted ratio of the simplified strategies is exactly 0
RatioZero ==
    /\ votes_different = Zero /\ votes_abstain = Zero
    /\ agreements_different = Zero
    /\ (votes_same # Zero \/ agreements_same # Zero)

C6_WitnessNarrow ==
    /\ called = "SimplifiedGradiatedScore" /\ RatioZero
    /\ votes_absent.strong.n = 2 /\ StrongTotal = 7
    /\ result = Frac(6, 100)

\* C7 as stated: with more than one strong absence the simplified strategies
\* return -1 or a score in the closed interval [0.06, 0.94]
C7_ClosedInterval ==
    (called \in Simplified /\ votes_absent.strong.n > 1
     /\ result # NoComparison)
    => Leq(Frac(6, 100), result) /\ Leq(result, Frac(94, 100))

\* C7 amended: with more than one strong absence the simplified strategies
\* return -1 or a score strictly between 0.05 and 0.95
C7_OpenInterval ==
    (called \in Simplified /\ votes_absent.strong.n > 1
     /\ result # NoComparison)
    => Lt(Frac(5, 100), result) /\ Lt(result, Frac(95, 100))

C7_Witness ==
    /\ called = "SimplifiedGradiatedScore"
    /\ votes_absent.strong.n = 2
    /\ Lt(Frac(5, 100), result) /\ Lt(result, Frac(6, 100))

C7_WitnessSimplified ==
    /\ called = "SimplifiedScore"
    /\ votes_absent.strong.n = 2
    /\ Lt(Frac(5, 100), result) /\ Lt(result, Frac(6, 100))

ZeroWeak(pair) == ScoreFloatPair(Num(0), pair.strong)

\* C8: the SimplifiedScore result is the one obtained with every weak
\* component set to zero, so inputs with equal strong components score equal
C8_WeakIgnored ==
    called = "SimplifiedScore" =>
        result = SimplifiedScore(ZeroWeak(votes_same), ZeroWeak(votes_different),
                                 ZeroWeak(votes_absent), ZeroWeak(votes_abstain),
                                 ZeroWeak(agreements_same),
                                 ZeroWeak(agreements_different))

C8_Witness ==
    /\ called = "SimplifiedScore"
    /\ votes_same = Pair(3, 1) /\ votes_different = Pair(1, 1)
    /\ votes_absent.weak = Num(2)
    /\ result = Frac(1, 2)

\* C9: PublicWhipScore returns 0.5 when all votes are weak and absent
C9_WeakAbsentHalf ==
    (/\ called = "PublicWhipScore"
     /\ votes_absent.weak.n > 0 /\ votes_absent.strong.n = 0
     /\ votes_same = Zero /\ votes_different = Zero /\ votes_abstain = Zero
     /\ agreements_same = Zero /\ agreements_different = Zero)
    => result = Frac(1, 2)

\* C10: with no strong absence the simplified strategies return the
\* unadjusted ratio points / available (0 stays 0 and 1 stays 1)
C10_NoAbsenceNoClamp ==
    /\ (/\ called = "SimplifiedGradiatedScore"
        /\ votes_absent.strong.n = 0 /\ result # NoComparison)
       => result = Over(SG_points(votes_different, votes_absent, votes_abstain,
                                  agreements_different),
                        SG_avaliable_points(votes_same, votes_different,
                                            votes_absent, votes_abstain,
                                            agreements_same,
                                            agreements_different))
    /\ (/\ called = "SimplifiedScore"
        /\ votes_absent.strong.n = 0 /\ result # NoComparison)
       => result = Over(S_points(votes_different, votes_absent, votes_abstain,
                                 agreements_different),
                        S_avaliable_points(votes_same, votes_different,
                                           votes_absent, votes_abstain,
                                           agreements_same,
                                           agreements_different))
====
